---- MODULE Spec2Model ----
(***************************************************************************)
(* acdcontrol.py: brightness control of Apple (and some other) USB         *)
(* monitors through the hiddev ioctl interface.                            *)
(*                                                                         *)
(* The model follows the program one driver call at a time.  pc is the     *)
(* position of the single thread of control, stack the Python call stack   *)
(* of the AppleCinemaDisplay methods, calls the log of every driver call   *)
(* (ioctl) issued on the device handle, ops the log of completed method    *)
(* calls.  The hiddev driver and the display are the environment: drv is   *)
(* the value the driver holds for the brightness usage of the feature      *)
(* report, hw the brightness of the display itself.                        *)
(*                                                                         *)
(* Spec        the command line program, main().                           *)
(* SpecSession a caller that constructs AppleCinemaDisplay and then calls  *)
(*             get_brightness, set_brightness and adjust_brightness in any *)
(*             order.                                                      *)
(***************************************************************************)
EXTENDS Integers, Sequences, FiniteSets, TLC

VARIABLES
    pc,               \* position of the thread of control
    stack,            \* frames of the method calls in progress, innermost first
    argv_device,      \* args.device: TRUE when a device path was given
    argv_brightness,  \* args.brightness: the characters of the argument
    device_handle,    \* self.device_handle: "none", "open" or "closed"
    device_info,      \* self.device_info (hiddev_devinfo)
    app_num,          \* loop variable of the application loop
    usage_ref,        \* self.usage_ref (hiddev_usage_ref)
    rep_info,         \* self.rep_info (hiddev_report_info)
    calls,            \* every driver call issued, in order
    ops,              \* every completed method call, in order
    result,           \* value returned by the last completed method call
    drv,              \* driver side: value of the brightness usage in its report
    hw,               \* display side: the brightness of the panel
    exit_code,        \* process exit status, NoExit while running
    exc,              \* the exception that ended construction or the process
    stdout,           \* what was printed, as tags
    vendor_entry,     \* the entry of SUPPORTED_DEVICES the vendor loop stopped at
    ops_left,         \* SpecSession: method calls the caller may still make
    other,            \* SpecRace: what another process wrote to the display
    ioc               \* SpecIoctl: the request code last built

vars == <<pc, stack, argv_device, argv_brightness, device_handle, device_info,
          app_num, usage_ref, rep_info, calls, ops, result, drv, hw,
          exit_code, exc, stdout, vendor_entry, ops_left, other, ioc>>

(***************************************************************************)
(* Bounds of the model.                                                    *)
(***************************************************************************)
MaxApps == 3      \* num_applications a device reports is 0..MaxApps
MaxOps == 2       \* SpecSession: method calls made on one session

(***************************************************************************)
(* Constants of the program.                                               *)
(***************************************************************************)
HID_REPORT_TYPE_FEATURE == 3
BRIGHTNESS_CONTROL == 16
USAGE_CODE == 8519696                \* 0x820010

Apple == 1452                        \* 0x05ac
Samsung == 1049                      \* 0x0419

\* SUPPORTED_DEVICES, in the order of the dict: vendor id, vendor name, and
\* the product ids of the vendor (the product names are display only).
SUPPORTED_DEVICES ==
    << [vendor_id |-> Apple, vendor_name |-> "Apple",
        products |-> << 37397, 37399, 37400, 37401, 37406,
                        37414, 37415, 37426, 37430 >>],
       [vendor_id |-> Samsung, vendor_name |-> "Samsung Electronics",
        products |-> << 32770 >>] >>

NoExit == 0 - 1

(***************************************************************************)
(* Inputs: what the device reports and what the user types.                *)
(***************************************************************************)
\* 0x05ac, 0x0419 and 0x1234 (not in the table)
VendorIds == {1452, 1049, 4660}
\* 0x9219 (Apple), 0x8002 (Samsung), 0x9999 (nobody's)
ProductIds == {37401, 32770, 39321}
\* what HIDIOCAPPLICATION may return: 0x00010000, 0x00040000, 0x00800001
\* (usage page 0x0080, Monitor), 0x80010000 and 0x80000000.  ioctl() returns a
\* C int, so the last two arrive as the 32-bit two's complement values
\* 0x80010000 - 2^32 and 0x80000000 - 2^32; bits 16..23, all the program
\* looks at, are the same either way.
Usage(page, id) ==
    (IF page >= 32768 THEN page - 65536 ELSE page) * 65536 + id
App_00010000 == Usage(1, 0)
App_00040000 == Usage(4, 0)
App_00800001 == Usage(128, 1)
App_80010000 == Usage(32769, 0)
App_80000000 == Usage(32768, 0)
AppValues == {App_00010000, App_00040000, App_00800001, App_80010000,
              App_80000000}
\* what the display's brightness may be when the program starts; the usage
\* value is a C int, nothing confines it to a byte
HwValues == {-1, 128, 300}
\* status a driver call returns: non-negative, or negative on failure
Statuses == {0, -1}

\* args.brightness as typed: omitted, absolute, relative, not a number
BrightnessArgs ==
    { <<>>,
      <<"1", "2", "8">>, <<"3", "0", "0">>,
      <<"+", "5", "0">>, <<"-", "9", "9">>, <<"+", "2", "0", "0">>,
      <<"a", "b", "c">>, <<"+", "x">> }

\* SpecSession: the arguments the caller passes
SetValues == {-1, 0, 255, 256}
AdjustValues == {-300, 10, 300}

(***************************************************************************)
(* Pure helpers.                                                           *)
(***************************************************************************)
Max(a, b) == IF a >= b THEN a ELSE b
Min(a, b) == IF a <= b THEN a ELSE b

\* the clamp without its lower end
ClampUpperOnly(value) == Min(255, value)

\* max(0, min(255, value))
Clamp(value) == Max(0, Min(255, value))

\* a status that is never taken for a failure
FailedNever(status) == FALSE

\* fcntl.ioctl(...) < 0
Failed(status) == status < 0

\* value >= 256 or value < 0
OutOfRange(value) == value >= 256 \/ value < 0

\* the test made on bits 24..31, the high byte of the usage page
IsMonitorHighByte(application) == ((application \div 16777216) % 256) = 128

\* (application >> 16) & 0xFF == 0x80
IsMonitorApplication(application) == ((application \div 65536) % 256) = 128

\* the loop one turn short
RangeExhaustedEarly(n, num_applications) == n + 1 >= num_applications

\* for app_num in range(self.device_info.num_applications): the loop is over
\* when app_num, the index it is at, has left the range
RangeExhausted(n, num_applications) == n >= num_applications

\* the value stored in the report id as well
StoreInReportId(ref, value) == [ref EXCEPT !.value = value, !.report_id = value]

\* the assignment left out
StoreNothing(ref, value) == ref

\* self.usage_ref.value = value
StoreValue(ref, value) == [ref EXCEPT !.value = value]

\* the value clamped on the way out
ReturnClamped(ref) == Clamp(ref.value)

\* int(self.usage_ref.value)
ReturnValue(ref) == ref.value

\* the loop left at its first entry whatever the vendor
VendorLookupFirst(vendor) == IF vendor = Samsung THEN 2 ELSE 1

\* for (vendor_id, vendor_name), products in SUPPORTED_DEVICES.items():
\*     if self.device_info.vendor == vendor_id: break
\* index of the entry the loop stops at, 0 when the else branch is taken
VendorLookup(vendor) ==
    LET hits == {i \in 1..Len(SUPPORTED_DEVICES) :
                    SUPPORTED_DEVICES[i].vendor_id = vendor}
    IN  IF hits = {} THEN 0 ELSE CHOOSE i \in hits : \A j \in hits : i <= j

\* the product looked for under every vendor of the table
ProductLookupAny(entry, product) ==
    \E e \in 1..Len(SUPPORTED_DEVICES) :
        \E k \in 1..Len(SUPPORTED_DEVICES[e].products) :
            SUPPORTED_DEVICES[e].products[k] = product

\* for product_id, product_name in products:
\*     if self.device_info.product == product_id: break
ProductLookup(entry, product) ==
    LET products == SUPPORTED_DEVICES[entry].products
    IN  \E k \in 1..Len(products) : products[k] = product

Digits == [c \in {"0", "1", "2", "3", "4", "5", "6", "7", "8", "9"} |->
             CASE c = "0" -> 0 [] c = "1" -> 1 [] c = "2" -> 2 [] c = "3" -> 3
               [] c = "4" -> 4 [] c = "5" -> 5 [] c = "6" -> 6 [] c = "7" -> 7
               [] c = "8" -> 8 [] c = "9" -> 9]

RECURSIVE DigitsValue(_)
DigitsValue(s) ==
    IF s = <<>> THEN 0
    ELSE 10 * DigitsValue(SubSeq(s, 1, Len(s) - 1)) + Digits[s[Len(s)]]

AllDigits(s) == s # <<>> /\ \A i \in 1..Len(s) : s[i] \in DOMAIN Digits

\* int(args.brightness): an optional sign and decimal digits, ValueError
\* otherwise
IntParses(s) ==
    IF s # <<>> /\ s[1] \in {"+", "-"} THEN AllDigits(Tail(s)) ELSE AllDigits(s)

IntValue(s) ==
    IF s[1] = "-" THEN 0 - DigitsValue(Tail(s))
    ELSE IF s[1] = "+" THEN DigitsValue(Tail(s))
    ELSE DigitsValue(s)

\* only the plus sign taken for a relative argument
IsRelativePlusOnly(s) == s # <<>> /\ s[1] = "+"

\* args.brightness.startswith('+') or args.brightness.startswith('-')
IsRelative(s) == s # <<>> /\ s[1] \in {"+", "-"}

(***************************************************************************)
(* Records.                                                                *)
(***************************************************************************)
\* hiddev_devinfo(): a ctypes structure starts zeroed
ZeroDevInfo == [vendor |-> 0, product |-> 0, num_applications |-> 0]

\* self.usage_ref and self.rep_info do not exist before the last lines of
\* __init__; until then the variables hold zeroed records
ZeroUsageRef == [report_type |-> 0, report_id |-> 0, field_index |-> 0,
                 usage_index |-> 0, usage_code |-> 0, value |-> 0]
ZeroRepInfo == [report_type |-> 0, report_id |-> 0, num_fields |-> 0]

\* no request code built yet
NoIoc == [dir |-> 0, type |-> 0, nr |-> 0, size |-> 0, hi |-> 0, lo |-> 0]

\* one driver call: the request, its argument (the value field of the
\* buffer, or the integer argument) and what it returned
Call(op, arg, ret) == [op |-> op, arg |-> arg, ret |-> ret]

Frame(fn, arg, ret) ==
    [fn |-> fn, arg |-> arg, loc |-> arg, base |-> Len(calls), ret |-> ret]

Op(frame, ret) ==
    [op |-> frame.fn, arg |-> frame.arg, ret |-> ret, base |-> frame.base]

\* raise SystemExit(message): nothing catches it, the process ends with
\* status 1
SystemExit(message) ==
    /\ pc' = "done"
    /\ exc' = message
    /\ exit_code' = 1

(***************************************************************************)
(* Initial states.                                                         *)
(***************************************************************************)
InitCommon ==
    /\ stack = <<>>
    /\ device_handle = "none"
    /\ device_info = ZeroDevInfo
    /\ app_num = 0
    /\ usage_ref = ZeroUsageRef
    /\ rep_info = ZeroRepInfo
    /\ calls = <<>>
    /\ ops = <<>>
    /\ result = 0
    /\ hw \in HwValues
    /\ drv = 0
    /\ exit_code = NoExit
    /\ exc = "none"
    /\ stdout = <<>>
    /\ vendor_entry = 0
    /\ other = <<>>
    /\ ioc = NoIoc

Init ==
    /\ InitCommon
    /\ pc = "main"
    /\ argv_device \in BOOLEAN
    /\ argv_brightness \in BrightnessArgs
    /\ ops_left = 0

(***************************************************************************)
(* AppleCinemaDisplay.__init__                                             *)
(***************************************************************************)
\* self.device_handle = os.open(device, os.O_RDWR); an OSError is caught
\* nowhere
init_open ==
    /\ pc = "open"
    /\ \/ /\ device_handle' = "open"
          /\ pc' = "devinfo"
          /\ UNCHANGED <<exc, exit_code>>
       \/ /\ device_handle' = device_handle
          /\ pc' = "done"
          /\ exc' = "OSError"
          /\ exit_code' = 1
    /\ UNCHANGED <<other, ioc>>
    /\ UNCHANGED <<stack, argv_device, argv_brightness, device_info, app_num,
                   usage_ref, rep_info, calls, ops, result, drv, hw, stdout,
                   vendor_entry, ops_left>>

\* fcntl.ioctl(self.device_handle, HIDIOCGDEVINFO, self.device_info): the
\* status is not looked at; a call that fails leaves the buffer zeroed
init_devinfo ==
    /\ pc = "devinfo"
    /\ \E status \in Statuses :
         /\ calls' = Append(calls, Call("HIDIOCGDEVINFO", 0, status))
         /\ IF status >= 0
            THEN \E v \in VendorIds, p \in ProductIds, n \in 0..MaxApps :
                   device_info' = [vendor |-> v, product |-> p,
                                   num_applications |-> n]
            ELSE device_info' = device_info
    /\ pc' = "vendor"
    /\ UNCHANGED <<other, ioc>>
    /\ UNCHANGED <<stack, argv_device, argv_brightness, device_handle, app_num,
                   usage_ref, rep_info, ops, result, drv, hw, exit_code, exc,
                   stdout, vendor_entry, ops_left>>

\* the vendor loop and its else branch
init_vendor ==
    /\ pc = "vendor"
    /\ IF VendorLookup(device_info.vendor) = 0
       THEN /\ pc' = "raised"
            /\ exc' = "UnsupportedVendor"
            /\ vendor_entry' = vendor_entry
       ELSE /\ pc' = "product"
            /\ exc' = exc
            /\ vendor_entry' = VendorLookup(device_info.vendor)
    /\ UNCHANGED <<other, ioc>>
    /\ UNCHANGED <<stack, argv_device, argv_brightness, device_handle,
                   device_info, app_num, usage_ref, rep_info, calls, ops, result,
                   drv, hw, exit_code, stdout, ops_left>>

\* the product loop and its else branch
init_product ==
    /\ pc = "product"
    /\ IF ProductLookup(vendor_entry, device_info.product)
       THEN /\ pc' = "apps"
            /\ exc' = exc
       ELSE /\ pc' = "raised"
            /\ exc' = "UnsupportedProduct"
    /\ app_num' = 0
    /\ UNCHANGED <<other, ioc>>
    /\ UNCHANGED <<stack, argv_device, argv_brightness, device_handle,
                   device_info, usage_ref, rep_info, calls, ops, result, drv, hw,
                   exit_code, stdout, vendor_entry, ops_left>>

\* one turn of the application loop: app_num is the index the loop is at
init_application ==
    /\ pc = "apps"
    /\ ~RangeExhausted(app_num, device_info.num_applications)
    /\ \E application \in AppValues :
         /\ calls' = Append(calls, Call("HIDIOCAPPLICATION", app_num, application))
         /\ IF IsMonitorApplication(application)
            THEN /\ pc' = "initreport"
                 /\ app_num' = app_num
            ELSE /\ pc' = "apps"
                 /\ app_num' = app_num + 1
    /\ UNCHANGED <<other, ioc>>
    /\ UNCHANGED <<stack, argv_device, argv_brightness, device_handle,
                   device_info, usage_ref, rep_info, ops, result, drv, hw,
                   exit_code, exc, stdout, vendor_entry, ops_left>>

\* the else branch of the application loop
init_not_monitor ==
    /\ pc = "apps"
    /\ RangeExhausted(app_num, device_info.num_applications)
    /\ pc' = "raised"
    /\ exc' = "NotAMonitor"
    /\ UNCHANGED <<other, ioc>>
    /\ UNCHANGED <<stack, argv_device, argv_brightness, device_handle,
                   device_info, app_num, usage_ref, rep_info, calls, ops, result,
                   drv, hw, exit_code, stdout, vendor_entry, ops_left>>

\* if fcntl.ioctl(self.device_handle, HIDIOCINITREPORT, 0) < 0: raise SystemExit
\* the driver reads the reports of the device into its own structures
init_initreport ==
    /\ pc = "initreport"
    /\ \E status \in Statuses :
         /\ calls' = Append(calls, Call("HIDIOCINITREPORT", 0, status))
         /\ IF Failed(status)
            THEN /\ SystemExit("ReportInitFailed")
                 /\ drv' = drv
            ELSE /\ pc' = "templates"
                 /\ drv' = hw
                 /\ UNCHANGED <<exc, exit_code>>
    /\ UNCHANGED <<other, ioc>>
    /\ UNCHANGED <<stack, argv_device, argv_brightness, device_handle,
                   device_info, app_num, usage_ref, rep_info, ops, result, hw,
                   stdout, vendor_entry, ops_left>>

\* self.usage_ref = hiddev_usage_ref(...); self.rep_info = hiddev_report_info(...)
init_templates ==
    /\ pc = "templates"
    /\ usage_ref' = [report_type |-> HID_REPORT_TYPE_FEATURE,
                     report_id |-> BRIGHTNESS_CONTROL,
                     field_index |-> 0, usage_index |-> 0,
                     usage_code |-> USAGE_CODE, value |-> 0]
    /\ rep_info' = [report_type |-> HID_REPORT_TYPE_FEATURE,
                    report_id |-> BRIGHTNESS_CONTROL, num_fields |-> 1]
    /\ pc' = "constructed"
    /\ UNCHANGED <<other, ioc>>
    /\ UNCHANGED <<stack, argv_device, argv_brightness, device_handle,
                   device_info, app_num, calls, ops, result, drv, hw, exit_code,
                   exc, stdout, vendor_entry, ops_left>>

Construct ==
    \/ init_open
    \/ init_devinfo
    \/ init_vendor
    \/ init_product
    \/ init_application
    \/ init_not_monitor
    \/ init_initreport
    \/ init_templates

(***************************************************************************)
(* AppleCinemaDisplay.get_brightness                                       *)
(***************************************************************************)
\* if fcntl.ioctl(self.device_handle, HIDIOCGUSAGE, self.usage_ref) < 0:
\*     raise SystemExit("Get usage failed")
\* the driver copies the value it holds for the usage into the buffer
get_brightness_usage ==
    /\ pc = "get_usage"
    /\ \E status \in Statuses :
         IF Failed(status)
         THEN /\ calls' = Append(calls, Call("HIDIOCGUSAGE", usage_ref.value, status))
              /\ SystemExit("UsageQueryFailed")
              /\ usage_ref' = usage_ref
         ELSE /\ calls' = Append(calls, Call("HIDIOCGUSAGE", drv, status))
              /\ usage_ref' = [usage_ref EXCEPT !.value = drv]
              /\ pc' = "get_report"
              /\ UNCHANGED <<exc, exit_code>>
    /\ UNCHANGED <<other, ioc>>
    /\ UNCHANGED <<stack, argv_device, argv_brightness, device_handle,
                   device_info, app_num, rep_info, ops, result, drv, hw, stdout,
                   vendor_entry, ops_left>>

\* if fcntl.ioctl(self.device_handle, HIDIOCGREPORT, self.rep_info) < 0:
\*     raise SystemExit("Get report failed")
\* return int(self.usage_ref.value)
\* the driver fetches the report from the display
get_brightness_report ==
    /\ pc = "get_report"
    /\ \E status \in Statuses :
         /\ calls' = Append(calls, Call("HIDIOCGREPORT", 0, status))
         /\ IF Failed(status)
            THEN /\ SystemExit("ReportQueryFailed")
                 /\ UNCHANGED <<drv, result, ops, stack>>
            ELSE /\ drv' = hw
                 /\ result' = ReturnValue(usage_ref)
                 /\ ops' = Append(ops, Op(Head(stack), ReturnValue(usage_ref)))
                 /\ pc' = Head(stack).ret
                 /\ stack' = Tail(stack)
                 /\ UNCHANGED <<exc, exit_code>>
    /\ UNCHANGED <<other, ioc>>
    /\ UNCHANGED <<argv_device, argv_brightness, device_handle, device_info,
                   app_num, usage_ref, rep_info, hw, stdout, vendor_entry,
                   ops_left>>

(***************************************************************************)
(* AppleCinemaDisplay.set_brightness                                       *)
(***************************************************************************)
\* value = int(value); the warning; value = max(0, min(255, value));
\* self.usage_ref.value = value
set_brightness_clamp ==
    /\ pc = "set_clamp"
    /\ LET value == Head(stack).loc
       IN  /\ stdout' = stdout \o <<"Set brightness to">>
                     \o (IF OutOfRange(value) THEN <<"Warning">> ELSE <<>>)
                     \o <<"Set brightness to">>
           /\ stack' = <<[Head(stack) EXCEPT !.loc = Clamp(value)]>> \o Tail(stack)
           /\ usage_ref' = StoreValue(usage_ref, Clamp(value))
    /\ pc' = "set_usage"
    /\ UNCHANGED <<other, ioc>>
    /\ UNCHANGED <<argv_device, argv_brightness, device_handle, device_info,
                   app_num, rep_info, calls, ops, result, drv, hw, exit_code,
                   exc, vendor_entry, ops_left>>

\* if fcntl.ioctl(self.device_handle, HIDIOCSUSAGE, self.usage_ref) < 0:
\*     raise SystemExit("Set usage failed")
\* the driver takes the value of the buffer into its report
set_brightness_usage ==
    /\ pc = "set_usage"
    /\ \E status \in Statuses :
         /\ calls' = Append(calls, Call("HIDIOCSUSAGE", usage_ref.value, status))
         /\ IF Failed(status)
            THEN /\ SystemExit("UsageSetFailed")
                 /\ drv' = drv
            ELSE /\ drv' = usage_ref.value
                 /\ pc' = "set_report"
                 /\ UNCHANGED <<exc, exit_code>>
    /\ UNCHANGED <<other, ioc>>
    /\ UNCHANGED <<stack, argv_device, argv_brightness, device_handle,
                   device_info, app_num, usage_ref, rep_info, ops, result, hw,
                   stdout, vendor_entry, ops_left>>

\* a set_brightness that undoes its 'set usage' when 'set report' fails: it
\* hands the display's value back to the driver and to the usage reference
set_brightness_report_rollback ==
    /\ pc = "set_report"
    /\ \E status \in Statuses :
         IF Failed(status)
         THEN /\ calls' = calls \o << Call("HIDIOCSREPORT", 0, status),
                                      Call("HIDIOCSUSAGE", hw, 0) >>
              /\ usage_ref' = [usage_ref EXCEPT !.value = hw]
              /\ drv' = hw
              /\ SystemExit("ReportSetFailed")
              /\ UNCHANGED <<hw, result, ops, stack>>
         ELSE /\ calls' = Append(calls, Call("HIDIOCSREPORT", 0, status))
              /\ hw' = drv
              /\ result' = 0
              /\ ops' = Append(ops, Op(Head(stack), 0))
              /\ pc' = Head(stack).ret
              /\ stack' = Tail(stack)
              /\ UNCHANGED <<exc, exit_code, usage_ref, drv>>
    /\ UNCHANGED <<other, ioc>>
    /\ UNCHANGED <<argv_device, argv_brightness, device_handle, device_info,
                   app_num, rep_info, stdout, vendor_entry, ops_left>>

\* if fcntl.ioctl(self.device_handle, HIDIOCSREPORT, self.rep_info) < 0:
\*     raise SystemExit("Set report failed")
\* the driver sends its report to the display
set_brightness_report ==
    /\ pc = "set_report"
    /\ \E status \in Statuses :
         /\ calls' = Append(calls, Call("HIDIOCSREPORT", 0, status))
         /\ IF Failed(status)
            THEN /\ SystemExit("ReportSetFailed")
                 /\ UNCHANGED <<hw, result, ops, stack>>
            ELSE /\ hw' = drv
                 /\ result' = 0
                 /\ ops' = Append(ops, Op(Head(stack), 0))
                 /\ pc' = Head(stack).ret
                 /\ stack' = Tail(stack)
                 /\ UNCHANGED <<exc, exit_code>>
    /\ UNCHANGED <<other, ioc>>
    /\ UNCHANGED <<argv_device, argv_brightness, device_handle, device_info,
                   app_num, usage_ref, rep_info, drv, stdout, vendor_entry,
                   ops_left>>

(***************************************************************************)
(* AppleCinemaDisplay.adjust_brightness                                    *)
(***************************************************************************)
\* current = self.get_brightness()
adjust_brightness_get ==
    /\ pc = "adjust_get"
    /\ stack' = <<Frame("get_brightness", 0, "adjust_add")>> \o stack
    /\ pc' = "get_usage"
    /\ UNCHANGED <<other, ioc>>
    /\ UNCHANGED <<argv_device, argv_brightness, device_handle, device_info,
                   app_num, usage_ref, rep_info, calls, ops, result, drv, hw,
                   exit_code, exc, stdout, vendor_entry, ops_left>>

\* the increment applied with the wrong sign
AdjustDifference(current, increment) == current - increment

\* current + increment
AdjustSum(current, increment) == current + increment

\* an adjust_brightness that adds the increment to the display's level of the
\* moment of the write instead of the value it read
adjust_brightness_add_latest ==
    /\ pc = "adjust_add"
    /\ LET current == AdjustSum(hw, Head(stack).arg)
       IN  stack' = <<Frame("set_brightness", current, "adjust_return"),
                      [Head(stack) EXCEPT !.loc = current]>> \o Tail(stack)
    /\ stdout' = Append(stdout, "Adjust brightness from")
    /\ pc' = "set_clamp"
    /\ UNCHANGED <<other, ioc>>
    /\ UNCHANGED <<argv_device, argv_brightness, device_handle, device_info,
                   app_num, usage_ref, rep_info, calls, ops, result, drv, hw,
                   exit_code, exc, vendor_entry, ops_left>>

\* the print; current += increment; self.set_brightness(current)
adjust_brightness_add ==
    /\ pc = "adjust_add"
    /\ LET current == AdjustSum(result, Head(stack).arg)
       IN  stack' = <<Frame("set_brightness", current, "adjust_return"),
                      [Head(stack) EXCEPT !.loc = current]>> \o Tail(stack)
    /\ stdout' = Append(stdout, "Adjust brightness from")
    /\ pc' = "set_clamp"
    /\ UNCHANGED <<other, ioc>>
    /\ UNCHANGED <<argv_device, argv_brightness, device_handle, device_info,
                   app_num, usage_ref, rep_info, calls, ops, result, drv, hw,
                   exit_code, exc, vendor_entry, ops_left>>

\* adjust_brightness returns None
adjust_brightness_return ==
    /\ pc = "adjust_return"
    /\ result' = 0
    /\ ops' = Append(ops, Op(Head(stack), 0))
    /\ pc' = Head(stack).ret
    /\ stack' = Tail(stack)
    /\ UNCHANGED <<other, ioc>>
    /\ UNCHANGED <<argv_device, argv_brightness, device_handle, device_info,
                   app_num, usage_ref, rep_info, calls, drv, hw, exit_code, exc,
                   stdout, vendor_entry, ops_left>>

Methods ==
    \/ get_brightness_usage
    \/ get_brightness_report
    \/ set_brightness_clamp
    \/ set_brightness_usage
    \/ set_brightness_report
    \/ adjust_brightness_get
    \/ adjust_brightness_add
    \/ adjust_brightness_return

(***************************************************************************)
(* main                                                                    *)
(***************************************************************************)
\* if not args.device: arg_parser.print_help(); sys.exit(1)
main_no_device ==
    /\ pc = "main"
    /\ ~argv_device
    /\ stdout' = Append(stdout, "help")
    /\ exit_code' = 1
    /\ pc' = "done"
    /\ UNCHANGED <<other, ioc>>
    /\ UNCHANGED <<stack, argv_device, argv_brightness, device_handle,
                   device_info, app_num, usage_ref, rep_info, calls, ops, result,
                   drv, hw, exc, vendor_entry, ops_left>>

\* monitor = AppleCinemaDisplay(args.device)
main_construct ==
    /\ pc = "main"
    /\ argv_device
    /\ pc' = "open"
    /\ UNCHANGED <<other, ioc>>
    /\ UNCHANGED <<stack, argv_device, argv_brightness, device_handle,
                   device_info, app_num, usage_ref, rep_info, calls, ops, result,
                   drv, hw, exit_code, exc, stdout, vendor_entry, ops_left>>

\* the handler ending the process with status 1
main_bad_device_status1 ==
    /\ pc = "raised"
    /\ stdout' = stdout \o <<"Bad device", exc>>
    /\ exit_code' = 1
    /\ pc' = "done"
    /\ UNCHANGED <<other, ioc>>
    /\ UNCHANGED <<stack, argv_device, argv_brightness, device_handle,
                   device_info, app_num, usage_ref, rep_info, calls, ops, result,
                   drv, hw, exc, vendor_entry, ops_left>>

\* except DeviceNotSupported as e: print("Bad device"); print(e); sys.exit(0)
main_bad_device ==
    /\ pc = "raised"
    /\ stdout' = stdout \o <<"Bad device", exc>>
    /\ exit_code' = 0
    /\ pc' = "done"
    /\ UNCHANGED <<other, ioc>>
    /\ UNCHANGED <<stack, argv_device, argv_brightness, device_handle,
                   device_info, app_num, usage_ref, rep_info, calls, ops, result,
                   drv, hw, exc, vendor_entry, ops_left>>

\* the two prints after construction; get_hid_driver_version() issues
\* HIDIOCGVERSION and does not look at its status
main_version ==
    /\ pc = "constructed"
    /\ \E status \in Statuses :
         calls' = Append(calls, Call("HIDIOCGVERSION", 0, status))
    /\ stdout' = stdout \o <<"hiddev driver version", "Found supported product">>
    /\ pc' = "dispatch"
    /\ UNCHANGED <<other, ioc>>
    /\ UNCHANGED <<stack, argv_device, argv_brightness, device_handle,
                   device_info, app_num, usage_ref, rep_info, ops, result, drv,
                   hw, exit_code, exc, vendor_entry, ops_left>>

\* if not args.brightness: brightness = monitor.get_brightness()
main_query ==
    /\ pc = "dispatch"
    /\ argv_brightness = <<>>
    /\ stack' = <<Frame("get_brightness", 0, "main_print")>> \o stack
    /\ pc' = "get_usage"
    /\ UNCHANGED <<other, ioc>>
    /\ UNCHANGED <<argv_device, argv_brightness, device_handle, device_info,
                   app_num, usage_ref, rep_info, calls, ops, result, drv, hw,
                   exit_code, exc, stdout, vendor_entry, ops_left>>

\* print("Current brightness level is", ...); sys.exit(0)
main_print ==
    /\ pc = "main_print"
    /\ stdout' = Append(stdout, "Current brightness level is")
    /\ exit_code' = 0
    /\ pc' = "done"
    /\ UNCHANGED <<other, ioc>>
    /\ UNCHANGED <<stack, argv_device, argv_brightness, device_handle,
                   device_info, app_num, usage_ref, rep_info, calls, ops, result,
                   drv, hw, exc, vendor_entry, ops_left>>

\* int(args.brightness) raises ValueError, which nothing catches
main_value_error ==
    /\ pc = "dispatch"
    /\ argv_brightness # <<>>
    /\ ~IntParses(argv_brightness)
    /\ exc' = "ValueError"
    /\ exit_code' = 1
    /\ pc' = "done"
    /\ UNCHANGED <<other, ioc>>
    /\ UNCHANGED <<stack, argv_device, argv_brightness, device_handle,
                   device_info, app_num, usage_ref, rep_info, calls, ops, result,
                   drv, hw, stdout, vendor_entry, ops_left>>

\* monitor.adjust_brightness(int(args.brightness))
main_adjust ==
    /\ pc = "dispatch"
    /\ IsRelative(argv_brightness)
    /\ IntParses(argv_brightness)
    /\ stack' = <<Frame("adjust_brightness", IntValue(argv_brightness), "main_end")>>
                \o stack
    /\ pc' = "adjust_get"
    /\ UNCHANGED <<other, ioc>>
    /\ UNCHANGED <<argv_device, argv_brightness, device_handle, device_info,
                   app_num, usage_ref, rep_info, calls, ops, result, drv, hw,
                   exit_code, exc, stdout, vendor_entry, ops_left>>

\* monitor.set_brightness(int(args.brightness))
main_set ==
    /\ pc = "dispatch"
    /\ argv_brightness # <<>>
    /\ ~IsRelative(argv_brightness)
    /\ IntParses(argv_brightness)
    /\ stack' = <<Frame("set_brightness", IntValue(argv_brightness), "main_end")>>
                \o stack
    /\ pc' = "set_clamp"
    /\ UNCHANGED <<other, ioc>>
    /\ UNCHANGED <<argv_device, argv_brightness, device_handle, device_info,
                   app_num, usage_ref, rep_info, calls, ops, result, drv, hw,
                   exit_code, exc, stdout, vendor_entry, ops_left>>

\* main() returns: the process ends with status 0
main_end ==
    /\ pc = "main_end"
    /\ exit_code' = 0
    /\ pc' = "done"
    /\ UNCHANGED <<other, ioc>>
    /\ UNCHANGED <<stack, argv_device, argv_brightness, device_handle,
                   device_info, app_num, usage_ref, rep_info, calls, ops, result,
                   drv, hw, exc, stdout, vendor_entry, ops_left>>

Main ==
    \/ main_no_device
    \/ main_construct
    \/ main_bad_device
    \/ main_version
    \/ main_query
    \/ main_print
    \/ main_value_error
    \/ main_adjust
    \/ main_set
    \/ main_end

Next == Main \/ Construct \/ Methods

Spec == Init /\ [][Next]_vars

(***************************************************************************)
(* A caller of the class: constructs a session, then calls its methods.    *)
(***************************************************************************)
InitSession ==
    /\ InitCommon
    /\ pc = "open"
    /\ argv_device = TRUE
    /\ argv_brightness = <<>>
    /\ ops_left = MaxOps

caller_get ==
    /\ pc = "constructed"
    /\ ops_left > 0
    /\ ops_left' = ops_left - 1
    /\ stack' = <<Frame("get_brightness", 0, "constructed")>> \o stack
    /\ pc' = "get_usage"
    /\ UNCHANGED <<other, ioc>>
    /\ UNCHANGED <<argv_device, argv_brightness, device_handle, device_info,
                   app_num, usage_ref, rep_info, calls, ops, result, drv, hw,
                   exit_code, exc, stdout, vendor_entry>>

caller_set ==
    /\ pc = "constructed"
    /\ ops_left > 0
    /\ ops_left' = ops_left - 1
    /\ \E value \in SetValues :
         stack' = <<Frame("set_brightness", value, "constructed")>> \o stack
    /\ pc' = "set_clamp"
    /\ UNCHANGED <<other, ioc>>
    /\ UNCHANGED <<argv_device, argv_brightness, device_handle, device_info,
                   app_num, usage_ref, rep_info, calls, ops, result, drv, hw,
                   exit_code, exc, stdout, vendor_entry>>

caller_adjust ==
    /\ pc = "constructed"
    /\ ops_left > 0
    /\ ops_left' = ops_left - 1
    /\ \E increment \in AdjustValues :
         stack' = <<Frame("adjust_brightness", increment, "constructed")>> \o stack
    /\ pc' = "adjust_get"
    /\ UNCHANGED <<other, ioc>>
    /\ UNCHANGED <<argv_device, argv_brightness, device_handle, device_info,
                   app_num, usage_ref, rep_info, calls, ops, result, drv, hw,
                   exit_code, exc, stdout, vendor_entry>>

Caller ==
    \/ caller_get
    \/ caller_set
    \/ caller_adjust

NextSession == Caller \/ Construct \/ Methods

SpecSession == InitSession /\ [][NextSession]_vars

(***************************************************************************)
(* Properties.                                                             *)
(***************************************************************************)
\* max(0, min(255, v)) written out
ClampTo255(v) == IF v < 0 THEN 0 ELSE IF v > 255 THEN 255 ELSE v

\* number of warnings printed so far
Warnings == Cardinality({i \in 1..Len(stdout) : stdout[i] = "Warning"})

\* a set_brightness call that is past its clamp and has not returned
SetInProgress ==
    /\ stack # <<>>
    /\ Head(stack).fn = "set_brightness"
    /\ pc \in {"set_usage", "set_report", "done"}

\* number of set_brightness calls, past their clamp, whose argument was
\* outside [0,255]
OutsideSets ==
    Cardinality({i \in 1..Len(ops) :
                    ops[i].op = "set_brightness" /\ ops[i].arg \notin 0..255})
    + (IF SetInProgress /\ Head(stack).arg \notin 0..255 THEN 1 ELSE 0)

\* C1: set_brightness(v) stores max(0, min(255, v)) into the retained usage
\* reference before it issues any driver call, every 'set usage' call carries
\* a value in [0,255], a warning is printed exactly for the calls whose
\* argument is outside [0,255], and no call ends for the range: only a
\* driver call that returned a negative status ends it.
C1_SetBrightnessClamps ==
    /\ \A i \in 1..Len(calls) :
         calls[i].op = "HIDIOCSUSAGE" => calls[i].arg \in 0..255
    /\ pc = "set_usage" =>
         /\ usage_ref.value = ClampTo255(Head(stack).arg)
         /\ Len(calls) = Head(stack).base
    /\ \A i \in 1..Len(ops) :
         ops[i].op = "set_brightness" =>
            /\ calls[ops[i].base + 1].op = "HIDIOCSUSAGE"
            /\ calls[ops[i].base + 1].arg = ClampTo255(ops[i].arg)
    /\ Warnings = OutsideSets
    /\ (SetInProgress /\ pc = "done") => calls[Len(calls)].ret < 0

\* a 'set usage' call was issued for an argument above the range and one
\* for an argument below it, each with its warning
C1_Witness ==
    /\ Len(ops) = 2
    /\ ops[1].op = "set_brightness" /\ ops[1].arg = 256
    /\ ops[2].op = "set_brightness" /\ ops[2].arg = -1
    /\ Warnings = 2
    /\ calls[ops[2].base + 1].arg = 0

\* C2: with a driver that keeps what is written, set_brightness(v) for v in
\* [0,255] followed immediately by get_brightness() returns v.
C2_SetThenGet ==
    \A i \in 1..(Len(ops) - 1) :
        ( /\ ops[i].op = "set_brightness"
          /\ ops[i].arg \in 0..255
          /\ ops[i + 1].op = "get_brightness"
          /\ ops[i + 1].base = ops[i].base + 2 )
        => ops[i + 1].ret = ops[i].arg

\* set_brightness(255) on a display that was at 128, then get_brightness()
C2_Witness ==
    /\ Len(ops) = 2
    /\ ops[1].op = "set_brightness" /\ ops[1].arg = 255
    /\ ops[2].op = "get_brightness" /\ ops[2].ret = 255
    /\ ops[2].base = ops[1].base + 2
    /\ calls[ops[1].base].op = "HIDIOCINITREPORT"
    /\ hw = 255

\* the driver calls of get_brightness() returning r followed by
\* set_brightness(x), as far as the first n of them
GetThenSetCalls(r, x, n) ==
    SubSeq(<< Call("HIDIOCGUSAGE", r, 0), Call("HIDIOCGREPORT", 0, 0),
              Call("HIDIOCSUSAGE", ClampTo255(x), 0), Call("HIDIOCSREPORT", 0, 0) >>,
           1, n)

\* C3: adjust_brightness(d) issues the driver calls of get_brightness()
\* followed by set_brightness(clamp(current + d)), and writes
\* max(0, min(255, current + d)); so does the caller who makes the two calls.
C3_AdjustIsGetThenSet ==
    /\ \A i \in 1..Len(ops) :
         ops[i].op = "adjust_brightness" =>
            LET b == ops[i].base
                r == calls[b + 1].arg
            IN  /\ i >= 3
                /\ ops[i - 2].op = "get_brightness" /\ ops[i - 2].ret = r
                /\ ops[i - 1].op = "set_brightness"
                /\ SubSeq(calls, b + 1, b + 4)
                     = GetThenSetCalls(r, ClampTo255(r + ops[i].arg), 4)
    /\ \A i \in 1..(Len(ops) - 1) :
         ( /\ ops[i].op = "get_brightness"
           /\ ops[i + 1].op = "set_brightness"
           /\ ops[i + 1].base = ops[i].base + 2 )
         => SubSeq(calls, ops[i].base + 1, ops[i].base + 4)
              = GetThenSetCalls(ops[i].ret, ops[i + 1].arg, 4)
    /\ (pc = "done" /\ stack # <<>> /\ stack[Len(stack)].fn = "adjust_brightness") =>
         LET b == stack[Len(stack)].base
             n == Len(calls) - b
         IN  /\ n \in 1..4
             /\ calls[Len(calls)].ret < 0
             /\ SubSeq(calls, b + 1, Len(calls) - 1)
                  = GetThenSetCalls(calls[b + 1].arg,
                                    calls[b + 1].arg + stack[Len(stack)].arg, n - 1)

\* adjust_brightness(+300) at level 128 wrote 255, and adjust_brightness(-300)
\* after it wrote 0
C3_Witness ==
    /\ Len(ops) = 6
    /\ ops[3].op = "adjust_brightness" /\ ops[3].arg = 300
    /\ ops[1].ret = 128
    /\ calls[ops[3].base + 3] = Call("HIDIOCSUSAGE", 255, 0)
    /\ ops[6].op = "adjust_brightness" /\ ops[6].arg = -300
    /\ calls[ops[6].base + 3] = Call("HIDIOCSUSAGE", 0, 0)
    /\ hw = 0

\* the 'get application' calls issued so far, in order
IsAppCall(c) == c.op = "HIDIOCAPPLICATION"
AppCalls == SelectSeq(calls, IsAppCall)
AppRets == [k \in 1..Len(AppCalls) |-> AppCalls[k].ret]

\* bits 16..23 of a usage value are 0x80: its usage page is 0x..80
MonitorUsage(v) == ((v \div 65536) % 256) = 128

\* C4, as claimed: an application value with 0x80 in its high byte (bits
\* 24..31) is taken for a monitor application, so a device whose only
\* application is 0x80010000 is accepted, and with applications 0x00010000,
\* 0x00040000, 0x80000000 the loop stops with success at index 2.
C4_HighByteAccepted ==
    /\ (device_info.num_applications = 1 /\ AppRets = <<App_80010000>>)
         => pc \notin {"apps", "raised"}
    /\ AppRets = <<App_00010000, App_00040000, App_80000000>>
         => pc \notin {"apps", "raised"}

\* C4, amended: the application loop stops with success exactly at a value
\* whose bits 16..23 are 0x80 (usage page 0x0080): after 0x00800001 the next
\* driver call is 'initialize report', after 0x00010000, 0x00040000,
\* 0x80010000 or 0x80000000 it is the next 'get application' or the session
\* fails; once 'initialize report' returns a non-negative status the session
\* is built.
C4_MonitorPageAccepted ==
    /\ \A i \in 1..Len(calls) :
         calls[i].op = "HIDIOCAPPLICATION" =>
            IF calls[i].ret = App_00800001
            THEN IF i = Len(calls) THEN pc = "initreport"
                 ELSE calls[i + 1].op = "HIDIOCINITREPORT"
            ELSE IF i = Len(calls) THEN pc \in {"apps", "raised"}
                 ELSE calls[i + 1].op = "HIDIOCAPPLICATION"
    /\ (calls # <<>> /\ calls[Len(calls)] = Call("HIDIOCINITREPORT", 0, 0))
         => /\ exc = "none"
            /\ pc = "templates" \/ usage_ref.usage_code = USAGE_CODE
    /\ (pc = "raised" /\ exc = "NotAMonitor")
         => \A k \in 1..Len(AppRets) : AppRets[k] # App_00800001

\* a session built on a device whose third application is 0x00800001
C4_Witness ==
    /\ pc = "constructed"
    /\ device_info.num_applications = 3
    /\ AppRets = <<App_00010000, App_00040000, App_00800001>>
    /\ app_num = 2

\* C5: the 'get application' calls carry the indices 0, 1, 2, ... in order and
\* none follows the first monitor application; when none of the
\* num_applications applications is one, exactly num_applications calls are
\* issued and construction fails with NotAMonitor, 'initialize report' not
\* issued.
C5_EnumeratesApplications ==
    /\ \A k \in 1..Len(AppCalls) : AppCalls[k].arg = k - 1
    /\ \A k \in 1..(Len(AppCalls) - 1) : ~MonitorUsage(AppCalls[k].ret)
    /\ Len(AppCalls) <= device_info.num_applications
    /\ exc = "NotAMonitor" =>
         /\ pc = "raised"
         /\ Len(AppCalls) = device_info.num_applications
         /\ \A k \in 1..Len(AppCalls) : ~MonitorUsage(AppCalls[k].ret)
         /\ \A i \in 1..Len(calls) : calls[i].op # "HIDIOCINITREPORT"
    /\ ( /\ pc \notin {"open", "devinfo", "vendor", "product", "apps"}
         /\ exc \notin {"OSError", "UnsupportedVendor", "UnsupportedProduct"}
         /\ \A k \in 1..Len(AppCalls) : ~MonitorUsage(AppCalls[k].ret) )
       => exc = "NotAMonitor"

\* three applications, none of them a monitor application
C5_Witness ==
    /\ exc = "NotAMonitor"
    /\ device_info.num_applications = 3
    /\ AppRets = <<App_00010000, App_80010000, App_00040000>>

\* C6: a vendor id absent from the table ends construction with
\* UnsupportedVendor, and 'get device info' is the only driver call issued.
C6_UnsupportedVendor ==
    /\ exc = "UnsupportedVendor" =>
         /\ device_info.vendor \notin {1452, 1049}
         /\ pc = "raised"
         /\ Len(calls) = 1
         /\ calls[1].op = "HIDIOCGDEVINFO"
    /\ ( /\ pc \notin {"open", "devinfo", "vendor"}
         /\ exc # "OSError"
         /\ device_info.vendor \notin {1452, 1049} )
       => exc = "UnsupportedVendor"

\* vendor 0x1234 with a listed product and three applications
C6_Witness ==
    /\ exc = "UnsupportedVendor"
    /\ device_info = [vendor |-> 4660, product |-> 37401, num_applications |-> 3]

\* C8, as claimed: get_brightness() returns a value in [0,255] that is the
\* value the driver placed in the buffer.
C8_ReturnsByte ==
    \A i \in 1..Len(ops) :
        ops[i].op = "get_brightness" =>
           /\ ops[i].ret \in 0..255
           /\ ops[i].ret = calls[ops[i].base + 1].arg

\* C8, amended: get_brightness() returns the value the driver placed in the
\* retained usage reference during its 'get usage' call, whatever that value
\* is.
C8_ReturnsDriverValue ==
    /\ \A i \in 1..Len(ops) :
         ops[i].op = "get_brightness" =>
            /\ calls[ops[i].base + 1].op = "HIDIOCGUSAGE"
            /\ calls[ops[i].base + 1].ret >= 0
            /\ ops[i].ret = calls[ops[i].base + 1].arg
    /\ pc = "get_report" => usage_ref.value = drv

\* the driver supplied 300 and get_brightness() returned it
C8_Witness ==
    /\ Len(ops) = 1
    /\ ops[1].op = "get_brightness"
    /\ ops[1].ret = 300
    /\ calls[ops[1].base + 1] = Call("HIDIOCGUSAGE", 300, 0)

\* C7: when the process has ended, the handle session construction opened
\* has been closed.
C7_HandleClosedAtExit == pc = "done" => device_handle # "open"

\* C9: a brightness argument that is not an integer fails to parse before
\* the device is opened and before any driver call.
C9_ParseBeforeDevice ==
    exc = "ValueError" => (device_handle = "none" /\ calls = <<>>)

BrightnessCalls ==
    {"HIDIOCGUSAGE", "HIDIOCGREPORT", "HIDIOCSUSAGE", "HIDIOCSREPORT"}

\* C10: after an acceptance error the program prints a diagnostic and ends
\* with status 0, no 'get usage', 'get report', 'set usage' or 'set report'
\* issued; without a device path it ends with status 1 and opens nothing.
C10_AcceptanceExit ==
    /\ exc \in {"UnsupportedVendor", "UnsupportedProduct", "NotAMonitor"} =>
         /\ \A i \in 1..Len(calls) : calls[i].op \notin BrightnessCalls
         /\ pc \in {"raised", "done"}
         /\ pc = "done" => (exit_code = 0 /\ stdout = <<"Bad device", exc>>)
    /\ ~argv_device =>
         /\ device_handle = "none"
         /\ calls = <<>>
         /\ pc \in {"main", "done"}
         /\ pc = "done" => (exit_code = 1 /\ stdout = <<"help">>)

\* the program has ended with status 0 on a device that is not a monitor
C10_Witness ==
    /\ pc = "done"
    /\ exc = "NotAMonitor"
    /\ exit_code = 0
    /\ device_info.num_applications = 2
    /\ Len(calls) = 3

\* the driver calls whose status the program looks at
CheckedCalls ==
    {"HIDIOCINITREPORT", "HIDIOCGUSAGE", "HIDIOCGREPORT", "HIDIOCSUSAGE",
     "HIDIOCSREPORT"}

\* C11: a negative status of 'initialize report', 'get usage', 'get report',
\* 'set usage' or 'set report' ends the process at once with a non-zero
\* status: the failed call is the last driver call of the run.
C11_FailureIsFatal ==
    \A i \in 1..Len(calls) :
        (calls[i].op \in CheckedCalls /\ calls[i].ret < 0) =>
           /\ i = Len(calls)
           /\ pc = "done"
           /\ exit_code # NoExit /\ exit_code # 0
           /\ exc \in {"ReportInitFailed", "UsageQueryFailed", "ReportQueryFailed",
                       "UsageSetFailed", "ReportSetFailed"}

\* 'set report' failed after a successful 'set usage'
C11_Witness ==
    /\ Len(calls) >= 2
    /\ calls[Len(calls)] = Call("HIDIOCSREPORT", 0, -1)
    /\ calls[Len(calls) - 1].op = "HIDIOCSUSAGE"
    /\ pc = "done"
    /\ exit_code = 1

\* the (vendor, product) pairs of the table
SupportedPairs ==
    {<<1452, p>> : p \in {37397, 37399, 37400, 37401, 37406, 37414, 37415,
                          37426, 37430}}
    \cup {<<1049, 32770>>}

\* C12: 'get device info' is the first driver call; 'get application' is
\* issued only for a supported vendor and product; 'initialize report' is
\* issued at most once and right after a monitor application was found; no
\* brightness call is issued unless 'initialize report' returned a
\* non-negative status before it.
C12_SessionOrder ==
    /\ calls # <<>> => (calls[1].op = "HIDIOCGDEVINFO" /\ device_handle = "open")
    /\ \A i \in 2..Len(calls) : calls[i].op # "HIDIOCGDEVINFO"
    /\ (\E i \in 1..Len(calls) : calls[i].op = "HIDIOCAPPLICATION")
         => <<device_info.vendor, device_info.product>> \in SupportedPairs
    /\ Cardinality({i \in 1..Len(calls) : calls[i].op = "HIDIOCINITREPORT"}) <= 1
    /\ \A i \in 1..Len(calls) :
         calls[i].op = "HIDIOCINITREPORT" =>
            /\ i > 1
            /\ calls[i - 1].op = "HIDIOCAPPLICATION"
            /\ MonitorUsage(calls[i - 1].ret)
    /\ \A j \in 1..Len(calls) :
         calls[j].op \in BrightnessCalls =>
            \E i \in 1..(j - 1) :
                calls[i].op = "HIDIOCINITREPORT" /\ calls[i].ret >= 0
    /\ usage_ref # ZeroUsageRef =>
         \E i \in 1..Len(calls) :
             calls[i].op = "HIDIOCINITREPORT" /\ calls[i].ret >= 0

\* a brightness was set on a device whose second application is the monitor
C12_Witness ==
    /\ pc = "done"
    /\ exit_code = 0
    /\ Len(calls) = 7
    /\ calls[3] = Call("HIDIOCAPPLICATION", 1, App_00800001)
    /\ calls[4] = Call("HIDIOCINITREPORT", 0, 0)
    /\ calls[7].op = "HIDIOCSREPORT"

\* what the brightness argument asks for
ArgExpect ==
    CASE argv_brightness = <<>> -> [kind |-> "query", n |-> 0]
      [] argv_brightness = <<"1", "2", "8">> -> [kind |-> "absolute", n |-> 128]
      [] argv_brightness = <<"3", "0", "0">> -> [kind |-> "absolute", n |-> 300]
      [] argv_brightness = <<"+", "5", "0">> -> [kind |-> "relative", n |-> 50]
      [] argv_brightness = <<"-", "9", "9">> -> [kind |-> "relative", n |-> -99]
      [] argv_brightness = <<"+", "2", "0", "0">> -> [kind |-> "relative", n |-> 200]
      [] OTHER -> [kind |-> "bad", n |-> 0]

ExpectedCalls ==
    CASE ArgExpect.kind = "query" -> <<"HIDIOCGUSAGE", "HIDIOCGREPORT">>
      [] ArgExpect.kind = "absolute" -> <<"HIDIOCSUSAGE", "HIDIOCSREPORT">>
      [] ArgExpect.kind = "relative" ->
           <<"HIDIOCGUSAGE", "HIDIOCGREPORT", "HIDIOCSUSAGE", "HIDIOCSREPORT">>
      [] OTHER -> <<>>

\* the driver calls issued after 'get version', the last call main makes
\* before it looks at the brightness argument
VersionAt == CHOOSE i \in 1..Len(calls) : calls[i].op = "HIDIOCGVERSION"
HasVersion == \E i \in 1..Len(calls) : calls[i].op = "HIDIOCGVERSION"
AfterVersion == SubSeq(calls, VersionAt + 1, Len(calls))

C13_Calls ==
    /\ ~HasVersion => \A i \in 1..Len(calls) : calls[i].op \notin BrightnessCalls
    /\ HasVersion =>
         /\ Len(AfterVersion) <= Len(ExpectedCalls)
         /\ \A k \in 1..Len(AfterVersion) : AfterVersion[k].op = ExpectedCalls[k]
         /\ (ArgExpect.kind = "absolute" /\ Len(AfterVersion) >= 1)
              => AfterVersion[1].arg = ClampTo255(ArgExpect.n)
         /\ (ArgExpect.kind = "relative" /\ Len(AfterVersion) >= 3)
              => AfterVersion[3].arg = ClampTo255(AfterVersion[1].arg + ArgExpect.n)
         /\ (pc = "done" /\ exit_code = 0) =>
              /\ Len(AfterVersion) = Len(ExpectedCalls)
              /\ ArgExpect.kind # "bad"
              /\ \A k \in 1..Len(AfterVersion) : AfterVersion[k].ret >= 0
         /\ (pc = "done" /\ ArgExpect.kind = "query") =>
              (exit_code = 0 <=> Len(AfterVersion) = 2 /\ AfterVersion[2].ret >= 0)

\* C13: on a built session an omitted brightness argument issues 'get usage'
\* then 'get report' only, leaves the display's brightness as it was and ends
\* with status 0; a bare integer issues 'set usage' then 'set report' with
\* the clamped value and no read before; an argument with a leading + or -
\* issues 'get usage', 'get report', 'set usage', 'set report' with
\* clamp(current + signed delta).
C13_ArgumentSelectsCalls ==
    /\ []C13_Calls
    /\ [][argv_brightness = <<>> => hw' = hw]_vars

\* "-99" on a display at 128: the four calls, 29 written
C13_Witness ==
    /\ pc = "done"
    /\ exit_code = 0
    /\ argv_brightness = <<"-", "9", "9">>
    /\ HasVersion
    /\ Len(AfterVersion) = 4
    /\ AfterVersion[1] = Call("HIDIOCGUSAGE", 128, 0)
    /\ AfterVersion[3] = Call("HIDIOCSUSAGE", 29, 0)
    /\ hw = 29

(***************************************************************************)
(* The request codes: the ioctl module and lines 121..136.                 *)
(*                                                                         *)
(* A request code is a 32-bit word: the operation number in bits 0..7, the *)
(* group identifier in bits 8..15, the payload size in bits 16..29 and the *)
(* direction in bits 30..31.  A code with the read direction does not fit  *)
(* the checker's integers, so a code is kept as its two 16-bit halves: lo  *)
(* holds group and operation, hi holds direction and size.                 *)
(***************************************************************************)
IOC_NONE == 0
IOC_WRITE == 1
IOC_READ == 2

\* the size field one bit short, so that its top bit runs into the direction
EncodeNarrowSize(dir, type, nr, size) ==
    [hi |-> dir * 8192 + size, lo |-> type * 256 + nr]

\* encode_request(direction, group_id, op_number, payload_size)
Encode(dir, type, nr, size) ==
    [hi |-> dir * 16384 + size, lo |-> type * 256 + nr]

\* the four builders
IO(type, nr) == Encode(IOC_NONE, type, nr, 0)
IOR(type, nr, size) == Encode(IOC_READ, type, nr, size)
IOW(type, nr, size) == Encode(IOC_WRITE, type, nr, size)
IOWR(type, nr, size) == Encode(IOC_READ + IOC_WRITE, type, nr, size)

\* what the driver reads back from a code
DecodeDir(code) == code.hi \div 16384
DecodeSize(code) == code.hi % 16384
DecodeType(code) == code.lo \div 256
DecodeNr(code) == code.lo % 256

\* StructMeta.__len__: struct.calcsize of the field formats in order, each
\* field aligned to its own size, nothing added after the last one
RECURSIVE CalcSize(_)
CalcSize(sizes) ==
    IF sizes = <<>> THEN 0
    ELSE LET before == CalcSize(SubSeq(sizes, 1, Len(sizes) - 1))
             size == sizes[Len(sizes)]
         IN  ((before + size - 1) \div size) * size + size

\* field sizes of hid_version, hiddev_devinfo, hiddev_usage_ref and
\* hiddev_report_info
Len_hid_version == CalcSize(<<1, 1, 2>>)
Len_hiddev_devinfo == CalcSize(<<4, 4, 4, 4, 2, 2, 2, 4>>)
Len_hiddev_usage_ref == CalcSize(<<4, 4, 4, 4, 4, 4>>)
Len_hiddev_report_info == CalcSize(<<4, 4, 4>>)

\* ord('H')
TypeH == 72

\* the request codes the program defines: direction, operation number, size
Requests ==
    { [dir |-> IOC_READ, nr |-> 1, size |-> Len_hid_version],
      [dir |-> IOC_NONE, nr |-> 2, size |-> 0],
      [dir |-> IOC_READ, nr |-> 3, size |-> Len_hiddev_devinfo],
      [dir |-> IOC_NONE, nr |-> 5, size |-> 0],
      [dir |-> IOC_WRITE, nr |-> 7, size |-> Len_hiddev_report_info],
      [dir |-> IOC_WRITE, nr |-> 8, size |-> Len_hiddev_report_info],
      [dir |-> IOC_READ + IOC_WRITE, nr |-> 9, size |-> Len_hiddev_report_info],
      [dir |-> IOC_READ + IOC_WRITE, nr |-> 11, size |-> Len_hiddev_usage_ref],
      [dir |-> IOC_WRITE, nr |-> 12, size |-> Len_hiddev_usage_ref],
      [dir |-> IOC_READ + IOC_WRITE, nr |-> 13, size |-> Len_hiddev_usage_ref],
      [dir |-> IOC_READ, nr |-> 14, size |-> 2],
      [dir |-> IOC_WRITE, nr |-> 16, size |-> Len_hiddev_usage_ref] }

\* group identifiers, operation numbers and sizes, to the ends of their widths
IocTypes == {0, 72, 255}
IocNrs == {0, 1, 11, 255}
IocSizes == {0, 4, 12, 24, 28, 8192, 16383}

Built(dir, type, nr, size, code) ==
    [dir |-> dir, type |-> type, nr |-> nr, size |-> size,
     hi |-> code.hi, lo |-> code.lo]

program_vars ==
    <<pc, stack, argv_device, argv_brightness, device_handle, device_info,
      app_num, usage_ref, rep_info, calls, ops, result, drv, hw, exit_code,
      exc, stdout, vendor_entry, ops_left, other>>

ioc_IO ==
    /\ \E type \in IocTypes, nr \in IocNrs :
         ioc' = Built(IOC_NONE, type, nr, 0, IO(type, nr))
    /\ UNCHANGED program_vars

ioc_IOR ==
    /\ \E type \in IocTypes, nr \in IocNrs, size \in IocSizes :
         ioc' = Built(IOC_READ, type, nr, size, IOR(type, nr, size))
    /\ UNCHANGED program_vars

ioc_IOW ==
    /\ \E type \in IocTypes, nr \in IocNrs, size \in IocSizes :
         ioc' = Built(IOC_WRITE, type, nr, size, IOW(type, nr, size))
    /\ UNCHANGED program_vars

ioc_IOWR ==
    /\ \E type \in IocTypes, nr \in IocNrs, size \in IocSizes :
         ioc' = Built(IOC_READ + IOC_WRITE, type, nr, size, IOWR(type, nr, size))
    /\ UNCHANGED program_vars

\* HIDIOCGVERSION = ioctl.IOR(ord('H'), 0x01, len(hid_version)) and the rest
ioc_requests ==
    /\ \E r \in Requests :
         ioc' = Built(r.dir, TypeH, r.nr, r.size,
                      CASE r.dir = IOC_NONE -> IO(TypeH, r.nr)
                        [] r.dir = IOC_READ -> IOR(TypeH, r.nr, r.size)
                        [] r.dir = IOC_WRITE -> IOW(TypeH, r.nr, r.size)
                        [] OTHER -> IOWR(TypeH, r.nr, r.size))
    /\ UNCHANGED program_vars

InitIoctl ==
    /\ InitCommon
    /\ pc = "import"
    /\ argv_device = FALSE
    /\ argv_brightness = <<>>
    /\ ops_left = 0

NextIoctl ==
    \/ ioc_IO
    \/ ioc_IOR
    \/ ioc_IOW
    \/ ioc_IOWR
    \/ ioc_requests

SpecIoctl == InitIoctl /\ [][NextIoctl]_vars

\* C14: decoding a request code built by the no-data, read-only, write-only
\* or read-write builder gives back the direction, the group identifier, the
\* operation number and the size it was built from, and the read-only and
\* write-only codes of the same group, operation and size differ in the
\* direction bits only.
C14_OpcodeRoundTrip ==
    LET code == [hi |-> ioc.hi, lo |-> ioc.lo]
        r == IOR(ioc.type, ioc.nr, ioc.size)
        w == IOW(ioc.type, ioc.nr, ioc.size)
    IN  /\ DecodeDir(code) = ioc.dir
        /\ DecodeType(code) = ioc.type
        /\ DecodeNr(code) = ioc.nr
        /\ DecodeSize(code) = ioc.size
        /\ code.hi \in 0..65535 /\ code.lo \in 0..65535
        /\ r.lo = w.lo
        /\ r.hi % 16384 = w.hi % 16384
        /\ r.hi \div 16384 = 2 /\ w.hi \div 16384 = 1

\* a read-write code with every field at the end of its width: 0xFFFFFFFF
C14_Witness ==
    /\ ioc.dir = 3 /\ ioc.type = 255 /\ ioc.nr = 255 /\ ioc.size = 16383
    /\ ioc.hi = 65535 /\ ioc.lo = 65535

\* C15: get_brightness issues 'get usage' then 'get report', set_brightness
\* 'set usage' then 'set report'; the report call comes right after a usage
\* call that returned a non-negative status, and after a usage call that
\* returned a negative one no call is issued.
C15_UsageThenReport ==
    /\ \A i \in 1..Len(calls) :
         /\ calls[i].op = "HIDIOCGREPORT" =>
              /\ i > 1
              /\ calls[i - 1].op = "HIDIOCGUSAGE" /\ calls[i - 1].ret >= 0
         /\ calls[i].op = "HIDIOCSREPORT" =>
              /\ i > 1
              /\ calls[i - 1].op = "HIDIOCSUSAGE" /\ calls[i - 1].ret >= 0
         /\ (calls[i].op = "HIDIOCGUSAGE" /\ calls[i].ret >= 0) =>
              IF i = Len(calls) THEN pc = "get_report"
              ELSE calls[i + 1].op = "HIDIOCGREPORT"
         /\ (calls[i].op = "HIDIOCSUSAGE" /\ calls[i].ret >= 0) =>
              IF i = Len(calls) THEN pc = "set_report"
              ELSE calls[i + 1].op = "HIDIOCSREPORT"
         /\ (calls[i].op \in {"HIDIOCGUSAGE", "HIDIOCSUSAGE"} /\ calls[i].ret < 0) =>
              (i = Len(calls) /\ pc = "done")
    /\ \A k \in 1..Len(ops) :
         /\ ops[k].op = "get_brightness" =>
              /\ calls[ops[k].base + 1].op = "HIDIOCGUSAGE"
              /\ calls[ops[k].base + 2].op = "HIDIOCGREPORT"
         /\ ops[k].op = "set_brightness" =>
              /\ calls[ops[k].base + 1].op = "HIDIOCSUSAGE"
              /\ calls[ops[k].base + 2].op = "HIDIOCSREPORT"

\* a get_brightness that completed, then a set_brightness whose 'set usage'
\* failed
C15_Witness ==
    /\ Len(ops) = 1
    /\ ops[1].op = "get_brightness"
    /\ Len(calls) = ops[1].base + 3
    /\ calls[Len(calls)].op = "HIDIOCSUSAGE"
    /\ calls[Len(calls)].ret < 0
    /\ pc = "done"

\* C16: when 'set report' returns a negative status after a successful 'set
\* usage', the process ends with a failure, the failed call is its last
\* driver call, and the usage reference (and the driver) keep the new
\* clamped value.
C16_NoRollback ==
    /\ \A i \in 1..Len(calls) :
         (calls[i].op = "HIDIOCSREPORT" /\ calls[i].ret < 0) => i = Len(calls)
    /\ (calls # <<>> /\ calls[Len(calls)].op = "HIDIOCSREPORT"
          /\ calls[Len(calls)].ret < 0) =>
         /\ pc = "done"
         /\ exit_code = 1
         /\ exc = "ReportSetFailed"
         /\ Head(stack).fn = "set_brightness"
         /\ calls[Len(calls) - 1] =
              Call("HIDIOCSUSAGE", ClampTo255(Head(stack).arg), 0)
         /\ usage_ref.value = ClampTo255(Head(stack).arg)
         /\ drv = usage_ref.value

\* set_brightness(255) on a display at 128: 'set report' failed, the usage
\* reference holds 255, the display is still at 128
C16_Witness ==
    /\ calls # <<>>
    /\ calls[Len(calls)] = Call("HIDIOCSREPORT", 0, -1)
    /\ ops = <<>>
    /\ pc = "done"
    /\ usage_ref.value = 255
    /\ hw = 128

\* the session has been built
SessionBuilt ==
    /\ pc # "templates"
    /\ \E i \in 1..Len(calls) :
           calls[i].op = "HIDIOCINITREPORT" /\ calls[i].ret >= 0

\* C17: once built, the usage reference keeps report_type 3, report_id 16,
\* field_index 0, usage_index 0 and usage_code 0x820010, and the report
\* descriptor keeps report_type 3, report_id 16 and num_fields 1, whatever
\* calls are made: only the value of the usage reference changes.
C17_TemplatesKept ==
    /\ SessionBuilt =>
         /\ usage_ref.report_type = 3
         /\ usage_ref.report_id = 16
         /\ usage_ref.field_index = 0
         /\ usage_ref.usage_index = 0
         /\ usage_ref.usage_code = 8519696
         /\ rep_info = [report_type |-> 3, report_id |-> 16, num_fields |-> 1]
    /\ ~SessionBuilt => (usage_ref = ZeroUsageRef /\ rep_info = ZeroRepInfo)

\* a set_brightness(255) and an adjust_brightness(-300) were made
C17_Witness ==
    /\ Len(ops) = 4
    /\ ops[1].op = "set_brightness" /\ ops[1].arg = 255
    /\ ops[4].op = "adjust_brightness" /\ ops[4].arg = -300
    /\ usage_ref.value = 0
    /\ usage_ref.report_id = 16

\* C18: a vendor of the table with a product that is not listed under that
\* vendor ends construction with UnsupportedProduct, 'get device info' the
\* only driver call issued, also when another vendor lists the product; a
\* vendor that is not in the table ends it with UnsupportedVendor whatever
\* the product.
C18_ProductOfVendor ==
    LET pair == <<device_info.vendor, device_info.product>>
        looked == pc \notin {"open", "devinfo", "vendor", "product"}
                    /\ exc # "OSError"
    IN  /\ exc = "UnsupportedProduct" =>
              /\ device_info.vendor \in {1452, 1049}
              /\ pair \notin SupportedPairs
              /\ pc = "raised"
              /\ Len(calls) = 1
              /\ calls[1].op = "HIDIOCGDEVINFO"
        /\ (looked /\ device_info.vendor \in {1452, 1049}
                   /\ pair \notin SupportedPairs)
             => exc = "UnsupportedProduct"
        /\ (looked /\ device_info.vendor \notin {1452, 1049})
             => exc = "UnsupportedVendor"

\* vendor 0x0419 with product 0x9219, which only vendor 0x05ac lists
C18_Witness ==
    /\ exc = "UnsupportedProduct"
    /\ device_info = [vendor |-> 1049, product |-> 37401, num_applications |-> 2]
    /\ pc = "raised"

(***************************************************************************)
(* Two processes on one display: a caller of adjust_brightness, and        *)
(* another process that sets the brightness of the same device through the *)
(* same driver ('set usage', then 'set report').  The class takes no lock  *)
(* and keeps the value it read in a local variable.                        *)
(***************************************************************************)
MaxOther == 1
MaxRaceOps == 1

\* the levels the other process sets
OtherValues == {0, 200}

\* the 'set usage' calls of the other process
OtherSets == SelectSeq(other, LAMBDA o : o.op = "HIDIOCSUSAGE")

\* the other process has a 'set usage' without its 'set report'
OtherPending == other # <<>> /\ other[Len(other)].op = "HIDIOCSUSAGE"

\* a driver call of the other process, made after `at' calls of this one
OtherCall(op, value) == [op |-> op, value |-> value, at |-> Len(calls)]

\* the other process's 'set usage': the driver takes its value
other_set_usage ==
    /\ SessionBuilt
    /\ pc # "done"
    /\ ~OtherPending
    /\ Len(OtherSets) < MaxOther
    /\ \E value \in OtherValues :
         /\ drv' = value
         /\ other' = Append(other, OtherCall("HIDIOCSUSAGE", value))
    /\ UNCHANGED <<pc, stack, argv_device, argv_brightness, device_handle,
                   device_info, app_num, usage_ref, rep_info, calls, ops,
                   result, hw, exit_code, exc, stdout, vendor_entry, ops_left,
                   ioc>>

\* the other process's 'set report': the driver sends the report it holds
other_set_report ==
    /\ OtherPending
    /\ hw' = drv
    /\ other' = Append(other, OtherCall("HIDIOCSREPORT", drv))
    /\ UNCHANGED <<pc, stack, argv_device, argv_brightness, device_handle,
                   device_info, app_num, usage_ref, rep_info, calls, ops,
                   result, drv, exit_code, exc, stdout, vendor_entry, ops_left,
                   ioc>>

OtherProcess ==
    \/ other_set_usage
    \/ other_set_report

\* a session that __init__ has built on an Apple display with one application,
\* the monitor one, before any method is called
ReadySession ==
    /\ pc = "constructed"
    /\ stack = <<>>
    /\ argv_device = TRUE
    /\ argv_brightness = <<>>
    /\ device_handle = "open"
    /\ device_info = [vendor |-> Apple, product |-> 37401, num_applications |-> 1]
    /\ vendor_entry = 1
    /\ app_num = 0
    /\ usage_ref = [ZeroUsageRef EXCEPT !.report_type = HID_REPORT_TYPE_FEATURE,
                                        !.report_id = BRIGHTNESS_CONTROL,
                                        !.usage_code = USAGE_CODE]
    /\ rep_info = [report_type |-> HID_REPORT_TYPE_FEATURE,
                   report_id |-> BRIGHTNESS_CONTROL, num_fields |-> 1]
    /\ calls = << Call("HIDIOCGDEVINFO", 0, 0),
                  Call("HIDIOCAPPLICATION", 0, App_00800001),
                  Call("HIDIOCINITREPORT", 0, 0) >>
    /\ ops = <<>>
    /\ result = 0
    /\ hw \in HwValues
    /\ drv = hw
    /\ exit_code = NoExit
    /\ exc = "none"
    /\ stdout = <<>>
    /\ other = <<>>
    /\ ioc = NoIoc

InitRace ==
    /\ ReadySession
    /\ ops_left = MaxRaceOps

NextRace == caller_adjust \/ Methods \/ OtherProcess

SpecRace == InitRace /\ [][NextRace]_vars

\* C19: adjust_brightness(d) reads, then writes, with nothing to keep
\* another process out: whatever the other process set before the write
\* (before the read, or between the read and the write), the display ends at
\* clamp(value read + d), and the other process's level is lost.
C19_LostUpdate ==
    (pc = "adjust_return" /\ Head(stack).fn = "adjust_brightness") =>
        LET b == Head(stack).base
            d == Head(stack).arg
            r == calls[b + 1].arg
        IN  /\ calls[b + 1].op = "HIDIOCGUSAGE"
            /\ calls[b + 3] = Call("HIDIOCSUSAGE", ClampTo255(r + d), 0)
            /\ (\A k \in 1..Len(other) : other[k].at <= b + 2)
                 => hw = ClampTo255(r + d)

\* adjust_brightness(+10) read 128, the other process set the display to 200
\* between the read and the write, and the display ends at 138, not at 210
C19_Witness ==
    /\ pc = "adjust_return"
    /\ Head(stack).fn = "adjust_brightness"
    /\ Head(stack).arg = 10
    /\ calls[Head(stack).base + 1] = Call("HIDIOCGUSAGE", 128, 0)
    /\ Len(other) = 2
    /\ other[1] = [op |-> "HIDIOCSUSAGE", value |-> 200,
                   at |-> Head(stack).base + 2]
    /\ other[2] = [op |-> "HIDIOCSREPORT", value |-> 200,
                   at |-> Head(stack).base + 2]
    /\ hw = 138
    /\ hw # ClampTo255(200 + 10)

====
